---- MODULE Spec2Model ----
(***************************************************************************)
(* A model of assemble-malie-dzi (rust_impl/src/main.rs): the DZI manifest *)
(* parser parse_dzi, the layer composer compose_layer and the driving loop *)
(* run.                                                                    *)
(*                                                                         *)
(* Text is a sequence of one-character strings, so that lines(), split(),  *)
(* trim() and parse() are computed character by character.  An image is a  *)
(* record [w, h, px] whose px maps the pixel <<column, line>> (0-based) to *)
(* a pixel value.  Numerals in the inputs have at most nine digits: every  *)
(* value parsed, and twice that value, is below 2^31, so none of the       *)
(* arithmetic modelled here leaves the range of u32.                       *)
(***************************************************************************)
EXTENDS Integers, Sequences, FiniteSets, TLC

VARIABLES
    event_dir,            \* the files of --event-dir: [name, content]
    tex_dir,              \* the tile directory: file name -> <<width, height>>
    enable_lower_layers,  \* cli.enable_lower_layers
    output,               \* the output directory: <<group, file name>> -> image
    pc,                   \* the position of run / compose_layer
    remaining,            \* the entries fs::read_dir has yet to yield
    group,                \* run: the current manifest's file stem
    dzi,                  \* run: the DziFile parse_dzi returned
    i,                    \* run: the layer index of the for loop
    tiles,                \* compose_layer: its tiles argument
    final_width,          \* compose_layer: its final_width argument
    final_height,         \* compose_layer: its final_height argument
    tile_w,               \* compose_layer: first_tile.dimensions().0
    tile_h,               \* compose_layer: first_tile.dimensions().1
    canvas,               \* compose_layer: the RgbaImage being painted
    y,                    \* compose_layer: the row of the loop (1-based)
    x,                    \* compose_layer: the cell of the loop (1-based)
    err,                  \* the error that ended the run, "none" while there is none
    exit_code,            \* the process's exit status, -1 while it runs
    loads                 \* history: <<group, layer, row, cell>> of every tile painted

vars == <<event_dir, tex_dir, enable_lower_layers, output, pc, remaining, group,
          dzi, i, tiles, final_width, final_height, tile_w, tile_h, canvas, y, x,
          err, exit_code, loads>>

(***************************************************************************)
(* Bounds of the model.                                                    *)
(***************************************************************************)
MaxLines == 5   \* lines of a manifest text (SpecParse)
MaxCells == 3   \* cells of a tile grid (SpecCompose)
MaxFiles == 2   \* files of the event directory (Spec)

(***************************************************************************)
(* Text.                                                                   *)
(***************************************************************************)
Min(a, b) == IF a < b THEN a ELSE b

NL == "\n"
CR == "\r"
Digits == <<"0", "1", "2", "3", "4", "5", "6", "7", "8", "9">>
Whitespace == {" ", "\t", CR, NL}

RECURSIVE IndexOf(_, _, _)
\* The first position >= k of character c in s, 0 when there is none.
IndexOf(s, c, k) ==
    IF k > Len(s) THEN 0
    ELSE IF s[k] = c THEN k
    ELSE IndexOf(s, c, k + 1)

RECURSIVE Split(_, _)
\* str::split(c): the pieces between the occurrences of c; one piece, the
\* empty one, for the empty string.
Split(s, c) ==
    LET k == IndexOf(s, c, 1) IN
    IF k = 0 THEN <<s>>
    ELSE <<SubSeq(s, 1, k - 1)>> \o Split(SubSeq(s, k + 1, Len(s)), c)

\* A line without the carriage return that preceded its line feed.
StripCR(s) ==
    IF Len(s) > 0 /\ s[Len(s)] = CR THEN SubSeq(s, 1, Len(s) - 1) ELSE s

\* str::lines(): the text cut at every line feed, each terminated line
\* without its carriage return; what follows the last line feed is a line
\* only when it is not empty.
Lines(s) ==
    LET pieces == Split(s, NL)
        n == Len(pieces)
        terminated == [k \in 1..(n - 1) |-> StripCR(pieces[k])]
    IN  IF pieces[n] = <<>> THEN terminated ELSE terminated \o <<pieces[n]>>

RECURSIVE TrimStart(_)
TrimStart(s) ==
    IF Len(s) > 0 /\ s[1] \in Whitespace THEN TrimStart(Tail(s)) ELSE s

RECURSIVE TrimEnd(_)
TrimEnd(s) ==
    IF Len(s) > 0 /\ s[Len(s)] \in Whitespace
    THEN TrimEnd(SubSeq(s, 1, Len(s) - 1))
    ELSE s

\* str::trim()
Trim(s) == TrimEnd(TrimStart(s))

\* The value of a decimal digit, -1 for any other character.
DigitValue(c) ==
    IF \E d \in 1..10 : Digits[d] = c
    THEN (CHOOSE d \in 1..10 : Digits[d] = c) - 1
    ELSE -1

RECURSIVE DigitsValue(_, _)
\* The value of the digits of s read after the value acc, -1 when a
\* character of s is no digit.
DigitsValue(s, acc) ==
    IF s = <<>> THEN acc
    ELSE IF DigitValue(s[1]) < 0 THEN -1
    ELSE DigitsValue(Tail(s), 10 * acc + DigitValue(s[1]))

\* str::parse::<u32>() and str::parse::<usize>(): an optional plus sign and
\* at least one digit; -1 stands for Err.
ParseUint(s) ==
    LET body == IF Len(s) > 0 /\ s[1] = "+" THEN Tail(s) ELSE s IN
    IF body = <<>> THEN -1 ELSE DigitsValue(body, 0)

\* size_line.split(',').map(|s| s.trim().parse()): one value per field.
ParseFields(line) ==
    LET fs == Split(line, ",") IN [k \in 1..Len(fs) |-> ParseUint(Trim(fs[k]))]

\* A parser of row lines that drops the empty fields.
ParseRowDroppingEmpty(line) ==
    LET fs == Split(line, ",")
        trimmed == [k \in 1..Len(fs) |-> Trim(fs[k])]
        NonEmpty(f) == f # <<>>
    IN  SelectSeq(trimmed, NonEmpty)

\* row_line.split(',').map(|s| s.trim().to_string()).collect()
ParseRow(line) ==
    LET fs == Split(line, ",") IN [k \in 1..Len(fs) |-> Trim(fs[k])]

\* Whether collecting the parsed fields and indexing parts[0], parts[1]
\* panics: an unwrap of Err, or an index out of bounds.
FieldsPanic(parts) ==
    \/ \E k \in 1..Len(parts) : parts[k] < 0
    \/ Len(parts) < 2

(***************************************************************************)
(* parse_dzi.  The outcome is a record whose kind is "ok" (a DziFile),     *)
(* "err" (an Err returned to the caller) or "panic" (the thread panics).   *)
(***************************************************************************)
ParseErr == [kind |-> "err", width |-> 0, height |-> 0, layers |-> <<>>]
ParsePanic == [kind |-> "panic", width |-> 0, height |-> 0, layers |-> <<>>]

RECURSIVE ParseLayers(_)
\* The while loop over the peekable line iterator: <<TRUE, layers>>, or
\* <<FALSE, <<>>>> when an unwrap or an index panics.
ParseLayers(ls) ==
    IF ls = <<>> THEN <<TRUE, <<>>>>
    ELSE
        LET parts == ParseFields(ls[1]) IN
        IF FieldsPanic(parts) THEN <<FALSE, <<>>>>
        ELSE
            LET cols == parts[1]
                rows == parts[2]
            IN  IF Len(ls) - 1 < rows THEN <<FALSE, <<>>>>
                ELSE
                    LET grid == [k \in 1..rows |-> ParseRow(ls[1 + k])]
                        rest == ParseLayers(SubSeq(ls, rows + 2, Len(ls)))
                    IN  IF rest[1]
                        THEN <<TRUE, <<[tiles |-> grid, rows |-> rows, cols |-> cols]>>
                                      \o rest[2]>>
                        ELSE rest

parse_dzi(content) ==
    LET ls == Lines(content) IN
    IF Len(ls) < 2 THEN ParseErr
    ELSE
        LET parts == ParseFields(ls[2]) IN
        IF FieldsPanic(parts) THEN ParsePanic
        ELSE
            LET body == ParseLayers(SubSeq(ls, 3, Len(ls))) IN
            IF body[1]
            THEN [kind |-> "ok", width |-> parts[1], height |-> parts[2],
                  layers |-> body[2]]
            ELSE ParsePanic

(***************************************************************************)
(* Paths.                                                                  *)
(***************************************************************************)
RECURSIVE LastIndexOf(_, _, _)
\* The last position <= k of character c in s, 0 when there is none.
LastIndexOf(s, c, k) ==
    IF k < 1 THEN 0
    ELSE IF s[k] = c THEN k
    ELSE LastIndexOf(s, c, k - 1)

\* Path::extension(): what follows the last dot of the file name, <<>> (None)
\* when the name has no dot or only a leading one.
Extension(name) ==
    LET k == LastIndexOf(name, ".", Len(name)) IN
    IF k <= 1 THEN <<>> ELSE SubSeq(name, k + 1, Len(name))

\* Path::file_stem(): the file name up to its last dot.
FileStem(name) ==
    LET k == LastIndexOf(name, ".", Len(name)) IN
    IF k <= 1 THEN name ELSE SubSeq(name, 1, k - 1)

DziExt == <<"d", "z", "i">>

RECURSIVE FormatUint(_)
\* The decimal digits of n, as {} formats an unsigned integer.
FormatUint(n) ==
    IF n < 10 THEN <<Digits[n + 1]>>
    ELSE FormatUint(n \div 10) \o <<Digits[(n % 10) + 1]>>

\* tex_dir.join(format!("{}.png", tile_name)), relative to the tile directory.
TilePath(name) == name \o <<".", "p", "n", "g">>

\* out_dir.join(format!("layer_{layer_index}.png")), relative to the group's
\* directory.
LayerFile(index) ==
    <<"l", "a", "y", "e", "r", "_">> \o FormatUint(index) \o <<".", "p", "n", "g">>

(***************************************************************************)
(* Images.                                                                 *)
(***************************************************************************)
\* Rgba([0, 0, 0, 0])
Transparent == [src |-> <<>>, alpha |-> 0]

\* A pixel of the tile image stored in file path: tiles are opaque.
TilePixel(path) == [src |-> path, alpha |-> 255]

Pixels(w, h) == (0..(w - 1)) \X (0..(h - 1))

\* RgbaImage::from_pixel(w, h, p)
FromPixel(w, h, p) == [w |-> w, h |-> h, px |-> [q \in Pixels(w, h) |-> p]]

\* load_tile(path) for a file of the tile directory: the decoded image.
load_tile(path) ==
    FromPixel(tex_dir[path][1], tex_dir[path][2], TilePixel(path))

\* Whether image::open(path) succeeds.
Loadable(path) == path \in DOMAIN tex_dir

\* Pixel::blend of pixel top over pixel bottom, for alpha 0 and alpha 255.
Blend(bottom, top) == IF top.alpha = 0 THEN bottom ELSE top

\* image::imageops::overlay(bottom, top, ox, oy): top is blended over bottom
\* with its corner at (ox, oy); what falls outside bottom is dropped.
Overlay(bottom, top, ox, oy) ==
    [bottom EXCEPT !.px =
        [q \in DOMAIN bottom.px |->
            IF /\ ox <= q[1] /\ q[1] < ox + top.w
               /\ oy <= q[2] /\ q[2] < oy + top.h
            THEN Blend(bottom.px[q], top.px[<<q[1] - ox, q[2] - oy>>])
            ELSE bottom.px[q]]]

\* image::imageops::crop_imm(img, 0, 0, w, h).to_image()
Crop(img, w, h) ==
    LET cw == Min(w, img.w)
        ch == Min(h, img.h)
    IN  [w |-> cw, h |-> ch, px |-> [q \in Pixels(cw, ch) |-> img.px[q]]]

NoImage == FromPixel(0, 0, Transparent)

(***************************************************************************)
(* The directory listing and the layer loop of run.                        *)
(***************************************************************************)
EmptyDir == [p \in {} |-> NoImage]

\* cropped.save(out_file) inside the group's directory.
SaveFile(dir, grp, file, img) ==
    [p \in DOMAIN dir \cup {<<grp, file>>} |->
        IF p = <<grp, file>> THEN img ELSE dir[p]]

RECURSIVE Pow2(_)
Pow2(n) == IF n = 0 THEN 1 ELSE 2 * Pow2(n - 1)

\* A scale of 0.5^index, truncated.
TargetSizeAnchoredAtZero(dim, index) == dim \div Pow2(index)

\* (dim as f64 * 0.5_f64.powi(index - 1)).round() as u32: f64 holds dim and
\* the power of two exactly, and round() rounds a half away from zero.
TargetSize(dim, index) ==
    IF index = 0 THEN dim * 2
    ELSE (2 * dim + Pow2(index - 1)) \div (2 * Pow2(index - 1))

\* A flag that also switches layer 1 off.
SkipsLayerFromOne(index) == index >= 1 /\ ~enable_lower_layers

\* if i > 1 && !cli.enable_lower_layers
SkipsLayer(index) == index > 1 /\ ~enable_lower_layers

RECURSIVE NextCellWithinCols(_, _, _)
\* Loops that leave a row once they have visited as many cells as row 0 has.
NextCellWithinCols(ts, cy, cx) ==
    IF cy > Len(ts) THEN <<0, 0>>
    ELSE IF cx < Len(ts[cy]) /\ cx < Len(ts[1]) THEN <<cy, cx + 1>>
    ELSE NextCellWithinCols(ts, cy + 1, 0)

RECURSIVE NextCell(_, _, _)
\* The cell the nested for loops visit after cell cx of row cy: the next
\* cell of the row, else the first cell of the next row that has one;
\* <<0, 0>> when the loops are over.
NextCell(ts, cy, cx) ==
    IF cy > Len(ts) THEN <<0, 0>>
    ELSE IF cx < Len(ts[cy]) THEN <<cy, cx + 1>>
    ELSE NextCell(ts, cy + 1, 0)

\* The position of compose_layer once the loops have moved to cell c.
AfterCell(c) == IF c = <<0, 0>> THEN "crop" ELSE "cells"

(***************************************************************************)
(* The ways the process ends.                                              *)
(***************************************************************************)
\* An error that is recorded while run goes on with the next directory entry.
FailsButContinues(kind) ==
    /\ pc' = "scan"
    /\ err' = kind
    /\ exit_code' = exit_code

\* run returns Err(kind): main prints the error and calls exit(1).  The kinds
\* are MalformedManifestError, TileLoadError and, for the errors of the
\* filesystem, the call that failed: RemoveDirError, ReadDirError, SaveError.
Fails(kind) ==
    /\ pc' = "failed"
    /\ err' = kind
    /\ exit_code' = 1

\* An unwrap or an index panics: the process ends with status 101.
Panics ==
    /\ pc' = "panicked"
    /\ err' = "Panic"
    /\ exit_code' = 101

(***************************************************************************)
(* run.                                                                    *)
(***************************************************************************)
\* if output_path.exists() { fs::remove_dir_all(&output_path)?; } and the
\* call of fs::read_dir(event_dir) that follows.
RemoveOutputDir ==
    /\ pc = "start"
    /\ output' = EmptyDir
    /\ pc' = "scan"
    /\ UNCHANGED <<event_dir, tex_dir, enable_lower_layers, remaining, group, dzi, i, tiles,
                   final_width, final_height, tile_w, tile_h, canvas, y, x, err,
                   exit_code, loads>>

\* fs::remove_dir_all fails on an output directory that exists.
RemoveOutputDirFails ==
    /\ pc = "start"
    /\ DOMAIN output # {}
    /\ Fails("RemoveDirError")
    /\ UNCHANGED <<event_dir, tex_dir, enable_lower_layers, output, remaining, group,
                   dzi, i, tiles, final_width, final_height, tile_w, tile_h, canvas,
                   y, x, loads>>

\* let entry = entry?; fails on a directory entry.
ReadDirFails ==
    /\ pc = "scan"
    /\ remaining # {}
    /\ Fails("ReadDirError")
    /\ UNCHANGED <<event_dir, tex_dir, enable_lower_layers, output, remaining, group,
                   dzi, i, tiles, final_width, final_height, tile_w, tile_h, canvas,
                   y, x, loads>>

\* An entry whose extension is not "dzi": continue.
SkipEntry ==
    /\ pc = "scan"
    /\ \E e \in remaining :
        /\ Extension(e.name) # DziExt
        /\ remaining' = remaining \ {e}
    /\ UNCHANGED <<event_dir, tex_dir, enable_lower_layers, output, pc, group, dzi, i,
                   tiles, final_width, final_height, tile_w, tile_h, canvas, y, x,
                   err, exit_code, loads>>

\* A manifest that parse_dzi turns into a DziFile: the layer loop starts.
ParseManifest ==
    /\ pc = "scan"
    /\ \E e \in remaining :
        /\ Extension(e.name) = DziExt
        /\ LET parsed == parse_dzi(e.content) IN
           /\ parsed.kind = "ok"
           /\ dzi' = parsed
        /\ remaining' = remaining \ {e}
        /\ group' = FileStem(e.name)
    /\ i' = 0
    /\ pc' = "layers"
    /\ UNCHANGED <<event_dir, tex_dir, enable_lower_layers, output, tiles,
                   final_width, final_height, tile_w, tile_h, canvas, y, x, err,
                   exit_code, loads>>

\* A manifest for which parse_dzi returns Err: run returns it.
ParseManifestFails ==
    /\ pc = "scan"
    /\ \E e \in remaining :
        /\ Extension(e.name) = DziExt
        /\ parse_dzi(e.content).kind = "err"
        /\ remaining' = remaining \ {e}
        /\ group' = FileStem(e.name)
    /\ Fails("MalformedManifestError")
    /\ UNCHANGED <<event_dir, tex_dir, enable_lower_layers, output, dzi, i, tiles,
                   final_width, final_height, tile_w, tile_h, canvas, y, x, loads>>

\* A manifest on which parse_dzi panics.
ParseManifestPanics ==
    /\ pc = "scan"
    /\ \E e \in remaining :
        /\ Extension(e.name) = DziExt
        /\ parse_dzi(e.content).kind = "panic"
        /\ remaining' = remaining \ {e}
        /\ group' = FileStem(e.name)
    /\ Panics
    /\ UNCHANGED <<event_dir, tex_dir, enable_lower_layers, output, dzi, i, tiles,
                   final_width, final_height, tile_w, tile_h, canvas, y, x, loads>>

\* The directory listing is over: run returns Ok(()).
AllDone ==
    /\ pc = "scan"
    /\ remaining = {}
    /\ pc' = "done"
    /\ exit_code' = 0
    /\ UNCHANGED <<event_dir, tex_dir, enable_lower_layers, output, remaining, group,
                   dzi, i, tiles, final_width, final_height, tile_w, tile_h, canvas,
                   y, x, err, loads>>

\* The layer loop of a manifest is over: the next directory entry.
ManifestDone ==
    /\ pc = "layers"
    /\ i >= Len(dzi.layers)
    /\ pc' = "scan"
    /\ UNCHANGED <<event_dir, tex_dir, enable_lower_layers, output, remaining, group,
                   dzi, i, tiles, final_width, final_height, tile_w, tile_h, canvas,
                   y, x, err, exit_code, loads>>

\* Skipping layer_{i} due to config.
SkipLayer ==
    /\ pc = "layers"
    /\ i < Len(dzi.layers)
    /\ SkipsLayer(i)
    /\ i' = i + 1
    /\ UNCHANGED <<event_dir, tex_dir, enable_lower_layers, output, pc, remaining,
                   group, dzi, tiles, final_width, final_height, tile_w, tile_h,
                   canvas, y, x, err, exit_code, loads>>

\* The target size of layer i and the call of compose_layer, whose loop
\* variables are not bound yet (0).
CallCompose ==
    /\ pc = "layers"
    /\ i < Len(dzi.layers)
    /\ ~SkipsLayer(i)
    /\ tiles' = dzi.layers[i + 1].tiles
    /\ final_width' = TargetSize(dzi.width, i)
    /\ final_height' = TargetSize(dzi.height, i)
    /\ y' = 0
    /\ x' = 0
    /\ pc' = "compose"
    /\ UNCHANGED <<event_dir, tex_dir, enable_lower_layers, output, remaining, group,
                   dzi, i, tile_w, tile_h, canvas, err, exit_code, loads>>

\* compose_layer returned Ok(()): the next layer.
LayerReturned ==
    /\ pc = "returned"
    /\ i' = i + 1
    /\ pc' = "layers"
    /\ UNCHANGED <<event_dir, tex_dir, enable_lower_layers, output, remaining, group,
                   dzi, tiles, final_width, final_height, tile_w, tile_h, canvas, y,
                   x, err, exit_code, loads>>

(***************************************************************************)
(* compose_layer.                                                          *)
(***************************************************************************)
\* The tile whose dimensions size the canvas: tiles[0][0].
AnchorName(ts) == ts[1][1]

\* A canvas as wide as the grid has rows.
ComposedWidthByRows(ts, tw) == Len(ts) * tw

\* let cols = tiles[0].len(); let composed_w = cols as u32 * tile_w;
ComposedWidth(ts, tw) == Len(ts[1]) * tw

\* let rows = tiles.len(); let composed_h = rows as u32 * tile_h;
ComposedHeight(ts, th) == Len(ts) * th

\* tiles.is_empty() || tiles[0].is_empty()
IsEmptyGrid(ts) == IF ts = <<>> THEN TRUE ELSE ts[1] = <<>>

\* if tiles.is_empty() || tiles[0].is_empty() { return Ok(()); }
ComposeEmpty ==
    /\ pc = "compose"
    /\ IsEmptyGrid(tiles)
    /\ pc' = "returned"
    /\ UNCHANGED <<event_dir, tex_dir, enable_lower_layers, output, remaining, group,
                   dzi, i, tiles, final_width, final_height, tile_w, tile_h, canvas,
                   y, x, err, exit_code, loads>>

\* load_tile(&first_tile_path)? fails.
AnchorFails ==
    /\ pc = "compose"
    /\ ~IsEmptyGrid(tiles)
    /\ ~Loadable(TilePath(AnchorName(tiles)))
    /\ Fails("TileLoadError")
    /\ UNCHANGED <<event_dir, tex_dir, enable_lower_layers, output, remaining, group,
                   dzi, i, tiles, final_width, final_height, tile_w, tile_h, canvas,
                   y, x, loads>>

\* The first tile is loaded, its dimensions size the transparent canvas, and
\* the loops over the cells start.
AnchorLoaded ==
    /\ pc = "compose"
    /\ ~IsEmptyGrid(tiles)
    /\ Loadable(TilePath(AnchorName(tiles)))
    /\ LET first_tile == load_tile(TilePath(AnchorName(tiles)))
           c == NextCell(tiles, 1, 0)
       IN  /\ tile_w' = first_tile.w
           /\ tile_h' = first_tile.h
           /\ canvas' = FromPixel(ComposedWidth(tiles, first_tile.w),
                                  ComposedHeight(tiles, first_tile.h), Transparent)
           /\ y' = c[1]
           /\ x' = c[2]
           /\ pc' = AfterCell(c)
    /\ UNCHANGED <<event_dir, tex_dir, enable_lower_layers, output, remaining, group,
                   dzi, i, tiles, final_width, final_height, err, exit_code, loads>>

\* if tile_name.is_empty() { continue; }
CellSkipped ==
    /\ pc = "cells"
    /\ tiles[y][x] = <<>>
    /\ LET c == NextCell(tiles, y, x)
       IN  /\ y' = c[1]
           /\ x' = c[2]
           /\ pc' = AfterCell(c)
    /\ UNCHANGED <<event_dir, tex_dir, enable_lower_layers, output, remaining, group,
                   dzi, i, tiles, final_width, final_height, tile_w, tile_h, canvas,
                   err, exit_code, loads>>

\* A tile that cannot be loaded is left out and the loops go on.
CellLoadFailureIgnored ==
    /\ pc = "cells"
    /\ tiles[y][x] # <<>>
    /\ ~Loadable(TilePath(tiles[y][x]))
    /\ LET c == NextCell(tiles, y, x)
       IN  /\ y' = c[1]
           /\ x' = c[2]
           /\ pc' = AfterCell(c)
    /\ UNCHANGED <<event_dir, tex_dir, enable_lower_layers, output, remaining, group,
                   dzi, i, tiles, final_width, final_height, tile_w, tile_h, canvas,
                   err, exit_code, loads>>

\* load_tile(&tile_path)? fails for the cell's tile.
CellLoadFails ==
    /\ pc = "cells"
    /\ tiles[y][x] # <<>>
    /\ ~Loadable(TilePath(tiles[y][x]))
    /\ Fails("TileLoadError")
    /\ UNCHANGED <<event_dir, tex_dir, enable_lower_layers, output, remaining, group,
                   dzi, i, tiles, final_width, final_height, tile_w, tile_h, canvas,
                   y, x, loads>>

\* The cell's tile is loaded and overlaid at (x * tile_w, y * tile_h).
CellPainted ==
    /\ pc = "cells"
    /\ tiles[y][x] # <<>>
    /\ Loadable(TilePath(tiles[y][x]))
    /\ canvas' = Overlay(canvas, load_tile(TilePath(tiles[y][x])),
                         (x - 1) * tile_w, (y - 1) * tile_h)
    /\ loads' = loads \cup {<<group, i, y, x>>}
    /\ LET c == NextCell(tiles, y, x)
       IN  /\ y' = c[1]
           /\ x' = c[2]
           /\ pc' = AfterCell(c)
    /\ UNCHANGED <<event_dir, tex_dir, enable_lower_layers, output, remaining, group,
                   dzi, i, tiles, final_width, final_height, tile_w, tile_h, err,
                   exit_code>>

\* The canvas is cropped and saved as layer_{layer_index}.png.
CropAndSave ==
    /\ pc = "crop"
    /\ output' = SaveFile(output, group, LayerFile(i),
                          Crop(canvas, Min(final_width, canvas.w),
                               Min(final_height, canvas.h)))
    /\ pc' = "returned"
    /\ UNCHANGED <<event_dir, tex_dir, enable_lower_layers, remaining, group, dzi, i,
                   tiles, final_width, final_height, tile_w, tile_h, canvas, y, x,
                   err, exit_code, loads>>

\* fs::create_dir_all(&out_dir)? or cropped.save(out_file)? fails.
SaveFails ==
    /\ pc = "crop"
    /\ Fails("SaveError")
    /\ UNCHANGED <<event_dir, tex_dir, enable_lower_layers, output, remaining, group,
                   dzi, i, tiles, final_width, final_height, tile_w, tile_h, canvas,
                   y, x, loads>>

(***************************************************************************)
(* Inputs.                                                                 *)
(***************************************************************************)
RECURSIVE Text(_)
\* The text whose lines are ls, each ended by a line feed.
Text(ls) == IF ls = <<>> THEN <<>> ELSE ls[1] \o <<NL>> \o Text(Tail(ls))

\* The text whose lines are ls, the last one without its line feed.
TextUnterminated(ls) ==
    IF ls = <<>> THEN <<>> ELSE SubSeq(Text(ls), 1, Len(Text(ls)) - 1)

NameA == <<"a">>
NameB == <<"b">>
TileNames == {<<>>, NameA, NameB}
TileFiles == {TilePath(n) : n \in TileNames}
TileSizes == {<<2, 1>>, <<3, 2>>}

\* The tile directories: any of the three files, each an image of one of the
\* sizes; ".png", when there is one, has the first size.
TexDirs ==
    {t \in UNION {[S -> TileSizes] : S \in SUBSET TileFiles} :
        TilePath(<<>>) \in DOMAIN t => t[TilePath(<<>>)] = <<2, 1>>}

LineFormat == <<"D", "Z", "I">>
Line21 == <<"2", ",", "1">>
Line12 == <<"1", ",", "2">>
Line11 == <<"1", ",", "1">>
LineAB == <<"a", ",", "b">>
LineA == <<"a">>
LineB == <<"b">>
LineBlank == <<>>
LineOne == <<"1">>
LineSpaced == <<" ", "+", "1", " ", ",", " ", "2", " ", CR>>

\* The lines the manifest texts of SpecParse are made of.
LineSet == {Line21, Line12, LineAB, LineBlank, LineOne, LineSpaced}

\* The manifest texts of at most n lines, with and without the line feed of
\* the last line.
ParseTexts(n) ==
    LET seqs == UNION {[1..k -> LineSet] : k \in 0..n}
    IN  {Text(ls) : ls \in seqs} \cup {TextUnterminated(ls) : ls \in seqs}

\* The files of the event directory in Spec.
FileA ==
    [name |-> <<"A", ".", "d", "z", "i">>,
     content |-> Text(<<LineFormat, <<"1", "0", "0", "0", ",", "8", "0", "0">>,
                        Line21, LineAB, Line11, LineA, Line11, LineB, Line11, LineA>>)]
FileB ==
    [name |-> <<"B", ".", "d", "z", "i">>,
     content |-> Text(<<LineFormat, <<"5", ",", "3">>,
                        Line11, LineA, Line11, LineB,
                        <<"2", ",", "2">>, <<",", "a">>, <<"a", ",", "b", ",", "b">>>>)]
FileM ==
    [name |-> <<"M", ".", "d", "z", "i">>,
     content |-> Text(<<LineFormat, <<"4", ",", "4">>, Line11, LineA,
                        <<"1", ",", "3">>, LineA, LineB>>)]
FileE ==
    [name |-> <<"E", ".", "d", "z", "i">>,
     content |-> Text(<<LineFormat>>)]
FileZ ==
    [name |-> <<"Z", ".", "d", "z", "i">>,
     content |-> TextUnterminated(<<LineFormat, <<"7", ",", "7">>,
                                    <<"2", ",", "0">>, Line11, LineA>>)]
FileTex ==
    [name |-> <<"t", "e", "x">>, content |-> <<>>]

RunFiles == {FileA, FileB, FileM, FileE, FileZ, FileTex}

EventDirs == {d \in SUBSET RunFiles : 1 <= Cardinality(d) /\ Cardinality(d) <= MaxFiles}

\* An output directory left by an earlier run.
StaleDir ==
    SaveFile(EmptyDir, <<"A">>, LayerFile(3), FromPixel(1, 1, Transparent))

RECURSIVE Grids(_)
\* The tile grids of at most n cells, every row with at least one cell (a
\* row is the split of a line).
Grids(n) ==
    {<<>>} \cup
    UNION {{<<row>> \o g : row \in [1..k -> TileNames], g \in Grids(n - k)} :
           k \in 1..n}

Targets == {<<1, 1>>, <<4, 2>>, <<9, 9>>}

NoDzi == [kind |-> "none", width |-> 0, height |-> 0, layers |-> <<>>]

(***************************************************************************)
(* The specifications.                                                     *)
(***************************************************************************)
\* What no step has set yet.
Unset ==
    /\ group = <<>>
    /\ tiles = <<>>
    /\ final_width = 0
    /\ final_height = 0
    /\ tile_w = 0
    /\ tile_h = 0
    /\ canvas = NoImage
    /\ y = 0
    /\ x = 0
    /\ err = "none"
    /\ exit_code = -1
    /\ loads = {}

\* The start of main: any event directory, tile directory, flag and any
\* output directory, fresh or left by an earlier run.
Init ==
    /\ event_dir \in EventDirs
    /\ tex_dir \in TexDirs
    /\ enable_lower_layers \in BOOLEAN
    /\ output \in {EmptyDir, StaleDir}
    /\ pc = "start"
    /\ remaining = event_dir
    /\ dzi = NoDzi
    /\ i = 0
    /\ Unset

Next ==
    \/ RemoveOutputDir
    \/ RemoveOutputDirFails
    \/ ReadDirFails
    \/ SkipEntry
    \/ ParseManifest
    \/ ParseManifestFails
    \/ ParseManifestPanics
    \/ AllDone
    \/ ManifestDone
    \/ SkipLayer
    \/ CallCompose
    \/ LayerReturned
    \/ ComposeEmpty
    \/ AnchorFails
    \/ AnchorLoaded
    \/ CellSkipped
    \/ CellLoadFails
    \/ CellPainted
    \/ CropAndSave
    \/ SaveFails

Spec == Init /\ [][Next]_vars

\* parse_dzi on any manifest text: run is about to read the one file of the
\* event directory.
InitParse ==
    /\ \E c \in ParseTexts(MaxLines) :
        event_dir = {[name |-> <<"A", ".", "d", "z", "i">>, content |-> c]}
    /\ remaining = event_dir
    /\ tex_dir = [f \in TileFiles |-> <<2, 1>>]
    /\ enable_lower_layers = TRUE
    /\ output = EmptyDir
    /\ pc = "scan"
    /\ dzi = NoDzi
    /\ i = 0
    /\ Unset

NextParse ==
    \/ ParseManifest
    \/ ParseManifestFails
    \/ ParseManifestPanics

SpecParse == InitParse /\ [][NextParse]_vars

\* compose_layer on any tile grid, tile directory and target size: run is
\* about to compose layer 1 of a manifest whose layer 0 is empty.
InitCompose ==
    /\ event_dir = {}
    /\ remaining = {}
    /\ tex_dir \in TexDirs
    /\ enable_lower_layers = TRUE
    /\ output = EmptyDir
    /\ pc = "compose"
    /\ \E g \in Grids(MaxCells), t \in Targets :
        /\ tiles = g
        /\ final_width = t[1]
        /\ final_height = t[2]
        /\ dzi = [kind |-> "ok", width |-> t[1], height |-> t[2],
                  layers |-> <<[tiles |-> <<>>, rows |-> 0, cols |-> 0],
                               [tiles |-> g, rows |-> Len(g),
                                cols |-> IF g = <<>> THEN 0 ELSE Len(g[1])]>>]
    /\ i = 1
    /\ group = <<"G">>
    /\ tile_w = 0
    /\ tile_h = 0
    /\ canvas = NoImage
    /\ y = 0
    /\ x = 0
    /\ err = "none"
    /\ exit_code = -1
    /\ loads = {}

NextCompose ==
    \/ ComposeEmpty
    \/ AnchorFails
    \/ AnchorLoaded
    \/ CellSkipped
    \/ CellLoadFails
    \/ CellPainted
    \/ CropAndSave
    \/ SaveFails

SpecCompose == InitCompose /\ [][NextCompose]_vars

(***************************************************************************)
(* What the claims speak of.                                               *)
(***************************************************************************)
\* The manifests run has passed to parse_dzi so far.
Handled == {e \in event_dir \ remaining : Extension(e.name) = DziExt}

\* The output directory of an earlier run is gone.
ResetDone == pc # "start" /\ err # "RemoveDirError"

\* The files of the output directory that belong to group grp.
FilesOf(grp) == {p \in DOMAIN output : p[1] = grp}

RECURSIVE CountChar(_, _)
CountChar(s, c) ==
    IF s = <<>> THEN 0
    ELSE (IF s[1] = c THEN 1 ELSE 0) + CountChar(Tail(s), c)

\* The number of comma-separated fields of a line.
FieldCount(line) == CountChar(line, ",") + 1

RECURSIVE LinesBefore(_, _)
\* The number of lines the layers before layer k take: a header and the rows.
LinesBefore(layers, k) ==
    IF k = 1 THEN 0
    ELSE layers[k - 1].rows + 1 + LinesBefore(layers, k - 1)

\* The line of the manifest text that holds row r of layer k (1-based), after
\* the format line, the size line and the layer's header.
RowLine(content, layers, k, r) ==
    Lines(content)[2 + LinesBefore(layers, k) + 1 + r]

\* The manifest whose layers run is working on.
CurrentManifest ==
    CHOOSE e \in event_dir : Extension(e.name) = DziExt /\ FileStem(e.name) = group

\* A non-negative decimal integer, with or without a plus sign.
IsNumeral(s) ==
    LET body == IF Len(s) > 0 /\ s[1] = "+" THEN Tail(s) ELSE s IN
    /\ body # <<>>
    /\ \A k \in 1..Len(body) : \E d \in 1..10 : Digits[d] = body[k]

\* The line holds two comma-separated integers.
TwoIntegers(line) ==
    LET f == Split(line, ",") IN
    IF Len(f) < 2 THEN FALSE
    ELSE IsNumeral(Trim(f[1])) /\ IsNumeral(Trim(f[2]))

RECURSIVE BodyMalformed(_)
\* Among the lines after the size line, a layer header that is not two
\* integers, or a layer that declares more rows than lines follow.
BodyMalformed(ls) ==
    IF ls = <<>> THEN FALSE
    ELSE IF ~TwoIntegers(ls[1]) THEN TRUE
    ELSE LET rows == ParseUint(Trim(Split(ls[1], ",")[2])) IN
         IF Len(ls) - 1 < rows THEN TRUE
         ELSE BodyMalformed(SubSeq(ls, rows + 2, Len(ls)))

\* The manifest texts the parser's contract calls malformed.
Malformed(content) ==
    LET ls == Lines(content) IN
    IF Len(ls) < 2 THEN TRUE
    ELSE IF ~TwoIntegers(ls[2]) THEN TRUE
    ELSE BodyMalformed(SubSeq(ls, 3, Len(ls)))

(***************************************************************************)
(* C1.                                                                     *)
(***************************************************************************)
\* C1 (as claimed): for every malformed manifest passed to parse_dzi, the
\* call returns an error to run (the run fails with a manifest parse error,
\* it neither continues with a manifest nor panics), and no layer file of
\* that manifest is written.
C1_MalformedReturnsError ==
    \A e \in Handled :
        Malformed(e.content) =>
            /\ pc = "failed"
            /\ err = "MalformedManifestError"
            /\ FilesOf(FileStem(e.name)) = {}

(***************************************************************************)
(* C2.                                                                     *)
(***************************************************************************)
\* C2 (as claimed): every layer parse_dzi returns has exactly `rows` rows,
\* its row 0 has exactly `cols` entries, and every other row has as many
\* entries as its line has comma-separated fields.
C2_RowZeroHasColsEntries ==
    pc = "layers" =>
        \A k \in 1..Len(dzi.layers) :
            LET layer == dzi.layers[k] IN
            /\ Len(layer.tiles) = layer.rows
            /\ layer.rows >= 1 => Len(layer.tiles[1]) = layer.cols
            /\ \A r \in 2..layer.rows :
                Len(layer.tiles[r])
                    = FieldCount(RowLine(CurrentManifest.content, dzi.layers, k, r))

\* C2 (amended): every layer parse_dzi returns has exactly `rows` rows, and
\* every row, row 0 included, has as many entries as its line has
\* comma-separated fields, whatever `cols` is.
C2_RowsKeepFieldCount ==
    pc = "layers" =>
        \A k \in 1..Len(dzi.layers) :
            LET layer == dzi.layers[k] IN
            /\ Len(layer.tiles) = layer.rows
            /\ \A r \in 1..layer.rows :
                Len(layer.tiles[r])
                    = FieldCount(RowLine(CurrentManifest.content, dzi.layers, k, r))

\* A parsed layer of two rows whose row 0 has `cols` entries and whose row 1
\* has not.
C2_Witness ==
    /\ pc = "layers"
    /\ \E k \in 1..Len(dzi.layers) :
        /\ dzi.layers[k].rows = 2
        /\ Len(dzi.layers[k].tiles[1]) = dzi.layers[k].cols
        /\ Len(dzi.layers[k].tiles[2]) # dzi.layers[k].cols

(***************************************************************************)
(* What the claims about compose_layer speak of.                           *)
(***************************************************************************)
\* The cells of a grid, <<row, cell>>, 1-based.
Cells(ts) == UNION {{<<r, c>> : c \in 1..Len(ts[r])} : r \in 1..Len(ts)}

\* The cells compose_layer has a tile to load for.
NamedCells(ts) == {c \in Cells(ts) : ts[c[1]][c[2]] # <<>>}

\* The cells beyond the length of row 0.
ExcessCells(ts) == {c \in Cells(ts) : c[2] > Len(ts[1])}

\* The places of a row that has fewer cells than row 0.
MissingCells(ts) ==
    {c \in (1..Len(ts)) \X (1..Len(ts[1])) : c[2] > Len(ts[c[1]])}

\* compose_layer is past the loading of its first tile.
Sized == pc \in {"cells", "crop", "returned"}

\* The file compose_layer writes for the layer it is composing.
LayerKey == <<group, LayerFile(i)>>

\* The pixels of an image inside the footprint of cell c, for tiles tw x th.
Footprint(img, c, tw, th) ==
    {q \in DOMAIN img.px :
        /\ (c[2] - 1) * tw <= q[1] /\ q[1] < c[2] * tw
        /\ (c[1] - 1) * th <= q[2] /\ q[2] < c[1] * th}

\* Every tile the layer names, and the one its first cell names, is an image
\* of size sz.
UniformTiles(ts, sz) ==
    /\ ~IsEmptyGrid(ts)
    /\ Loadable(TilePath(AnchorName(ts)))
    /\ tex_dir[TilePath(AnchorName(ts))] = sz
    /\ \A c \in NamedCells(ts) :
        /\ Loadable(TilePath(ts[c[1]][c[2]]))
        /\ tex_dir[TilePath(ts[c[1]][c[2]])] = sz

RECURSIVE FirstNamed(_, _)
\* The first cell from cell c on, in row-major order, that names a tile;
\* <<0, 0>> when there is none.
FirstNamed(ts, c) ==
    IF c = <<0, 0>> THEN c
    ELSE IF ts[c[1]][c[2]] # <<>> THEN c
    ELSE FirstNamed(ts, NextCell(ts, c[1], c[2]))

(***************************************************************************)
(* C3.                                                                     *)
(***************************************************************************)
\* C3: for a non-empty layer all of whose tiles have size tw x th, the canvas
\* is cols*tw wide and rows*th high, compose_layer gets to write the layer
\* (only a filesystem error stops it), and the image written is the top-left
\* min(final_width, cols*tw) by min(final_height, rows*th) of the canvas.
C3_CanvasAndCrop ==
    \A sz \in TileSizes :
        UniformTiles(tiles, sz) =>
            LET cw == Len(tiles[1]) * sz[1]
                ch == Len(tiles) * sz[2]
            IN  /\ pc = "failed" => err = "SaveError"
                /\ Sized =>
                    /\ canvas.w = cw
                    /\ canvas.h = ch
                    /\ DOMAIN canvas.px = Pixels(cw, ch)
                /\ pc = "returned" =>
                    /\ LayerKey \in DOMAIN output
                    /\ output[LayerKey].w = Min(final_width, cw)
                    /\ output[LayerKey].h = Min(final_height, ch)
                    /\ DOMAIN output[LayerKey].px
                        = Pixels(Min(final_width, cw), Min(final_height, ch))
                    /\ \A q \in DOMAIN output[LayerKey].px :
                        output[LayerKey].px[q] = canvas.px[q]

\* A grid of one row of two 2 x 1 tiles composed for the target 4 x 2: the
\* image written is 4 x 1, the canvas's size, not the target's.
C3_Witness ==
    /\ pc = "returned"
    /\ tiles = <<<<NameA, NameB>>>>
    /\ UniformTiles(tiles, <<2, 1>>)
    /\ final_width = 4
    /\ final_height = 2
    /\ LayerKey \in DOMAIN output
    /\ output[LayerKey].w = 4
    /\ output[LayerKey].h = 1

(***************************************************************************)
(* C6.                                                                     *)
(***************************************************************************)
\* C6 (as claimed): no cell with an empty identifier makes compose_layer fail
\* to load a tile for it, cell (0, 0) included, and in the image written the
\* footprint of every such cell is fully transparent.
C6_EmptyCellsTransparent ==
    \A c \in Cells(tiles) :
        tiles[c[1]][c[2]] = <<>> =>
            /\ ~(pc = "failed" /\ err = "TileLoadError" /\ y = 0 /\ c = <<1, 1>>)
            /\ (pc = "returned" /\ LayerKey \in DOMAIN output) =>
                \A q \in Footprint(output[LayerKey], c, tile_w, tile_h) :
                    output[LayerKey].px[q].alpha = 0

(***************************************************************************)
(* C8.                                                                     *)
(***************************************************************************)
\* C8 (as claimed): when the first tile the layer names, in row-major order,
\* can be loaded, compose_layer does not fail before the loops, and it takes
\* tile_w and tile_h, and with them the canvas size, from that tile's image.
C8_SizeFromFirstNamedTile ==
    LET c == IF IsEmptyGrid(tiles) THEN <<0, 0>> ELSE FirstNamed(tiles, <<1, 1>>) IN
    (c # <<0, 0>> /\ Loadable(TilePath(tiles[c[1]][c[2]]))) =>
        LET sz == tex_dir[TilePath(tiles[c[1]][c[2]])] IN
        /\ ~(pc = "failed" /\ err = "TileLoadError" /\ y = 0)
        /\ Sized =>
            /\ <<tile_w, tile_h>> = sz
            /\ canvas.w = Len(tiles[1]) * sz[1]
            /\ canvas.h = Len(tiles) * sz[2]

(***************************************************************************)
(* C9.                                                                     *)
(***************************************************************************)
\* The tile names that only cells beyond row 0's length hold.
ExcessOnlyNames(ts) ==
    {ts[c[1]][c[2]] : c \in ExcessCells(ts) \cap NamedCells(ts)}
        \ {ts[c[1]][c[2]] : c \in Cells(ts) \ ExcessCells(ts)}

\* In the image written, the places a short row lacks are transparent (when
\* all tiles have the size of the first one).
ShortRowsTransparent ==
    (pc = "returned" /\ LayerKey \in DOMAIN output
        /\ UniformTiles(tiles, <<tile_w, tile_h>>)) =>
        \A c \in MissingCells(tiles) :
            \A q \in Footprint(output[LayerKey], c, tile_w, tile_h) :
                output[LayerKey].px[q] = Transparent

\* In the image written, no pixel comes from a tile that only an excess cell
\* names.
ExcessCellsPaintNothing ==
    (pc = "returned" /\ LayerKey \in DOMAIN output) =>
        \A q \in DOMAIN output[LayerKey].px :
            \A n \in ExcessOnlyNames(tiles) :
                output[LayerKey].px[q].src # TilePath(n)

\* C9 (as claimed): row 0's length rules every row: the places a short row
\* lacks stay transparent, and the cells beyond it change no output pixel and
\* never make the layer fail: no tile load error comes from a tile that only
\* such a cell names.
C9_ExcessCellsIgnored ==
    ~IsEmptyGrid(tiles) =>
        /\ ShortRowsTransparent
        /\ ExcessCellsPaintNothing
        /\ ~(/\ pc = "failed"
             /\ err = "TileLoadError"
             /\ y >= 1
             /\ <<y, x>> \in ExcessCells(tiles)
             /\ tiles[y][x] \in ExcessOnlyNames(tiles))

\* C9 (amended): row 0's length rules the canvas width only.  The places a
\* short row lacks stay transparent and the cells beyond row 0's length
\* change no output pixel, but those cells are visited like any other: the
\* layer is cropped and written only once the tile of every cell that names
\* one, excess cells included, has been loaded, so a tile that cannot be
\* loaded fails the layer there too.
C9_ExcessCellsLoadedNotPainted ==
    ~IsEmptyGrid(tiles) =>
        /\ ShortRowsTransparent
        /\ ExcessCellsPaintNothing
        /\ pc \in {"crop", "returned"} =>
            \A c \in NamedCells(tiles) :
                /\ Loadable(TilePath(tiles[c[1]][c[2]]))
                /\ <<group, i, c[1], c[2]>> \in loads

\* A layer whose second row has a cell beyond row 0's length, naming a tile
\* no other cell names, composed and written.
C9_Witness ==
    /\ pc = "returned"
    /\ tiles = <<<<NameA>>, <<NameA, NameB>>>>
    /\ LayerKey \in DOMAIN output
    /\ <<group, i, 2, 2>> \in loads

(***************************************************************************)
(* C4.                                                                     *)
(***************************************************************************)
\* compose_layer has been called for layer i and has not returned to run.
Composing == pc \in {"compose", "cells", "crop", "returned"}

\* t is dim * 0.5^(index - 1) rounded to the nearest integer, a half rounded
\* up: twice dim for index 0, and for index >= 1 the integer within half a
\* unit of dim / 2^(index - 1).
NearestScaled(t, dim, index) ==
    IF index = 0 THEN t = 2 * dim
    ELSE LET p == Pow2(index - 1) IN
         /\ 2 * (t * p - dim) <= p
         /\ 2 * (dim - t * p) < p

\* C4: whenever compose_layer is called for layer i of a manifest of
\* dimensions (W, H), its target is round(W * 0.5^(i-1)) by
\* round(H * 0.5^(i-1)); for 1000 x 800 the layers 0, 1, 2, 3 get 2000 x 1600,
\* 1000 x 800, 500 x 400 and 250 x 200.
C4_TargetSize ==
    Composing =>
        /\ NearestScaled(final_width, dzi.width, i)
        /\ NearestScaled(final_height, dzi.height, i)
        /\ (dzi.width = 1000 /\ dzi.height = 800 /\ i <= 3) =>
            <<final_width, final_height>>
                = <<<<2000, 1600>>, <<1000, 800>>, <<500, 400>>, <<250, 200>>>>[i + 1]

\* Layer 3 of the 1000 x 800 manifest is being composed for 250 x 200.
C4_Witness ==
    /\ pc = "compose"
    /\ dzi.width = 1000
    /\ dzi.height = 800
    /\ i = 3
    /\ final_width = 250
    /\ final_height = 200

(***************************************************************************)
(* C5.                                                                     *)
(***************************************************************************)
\* The layer indices of a parsed manifest that compose_layer writes a file
\* for when nothing fails: those with a non-empty grid that the flag does not
\* switch off.
WrittenLayers(layers) ==
    {k \in 0..(Len(layers) - 1) :
        /\ ~IsEmptyGrid(layers[k + 1].tiles)
        /\ (k <= 1 \/ enable_lower_layers)}

\* C5: with the flag false no layer of index > 1 is ever composed or written
\* once the output directory is reset; and when the run succeeds, every
\* manifest has exactly the files of its non-empty layers, all of them with
\* the flag true, those of index 0 and 1 with the flag false.
C5_LowerLayersToggle ==
    /\ (~enable_lower_layers /\ ResetDone) =>
        /\ Composing => i <= 1
        /\ \A l \in loads : l[2] <= 1
        /\ \A p \in DOMAIN output : p[2] \in {LayerFile(0), LayerFile(1)}
    /\ pc = "done" =>
        \A e \in event_dir :
            Extension(e.name) = DziExt =>
                FilesOf(FileStem(e.name))
                    = {<<FileStem(e.name), LayerFile(k)>> :
                        k \in WrittenLayers(parse_dzi(e.content).layers)}

\* The run succeeded on the four-layer manifest A with the flag false, and
\* A's files are layer_0.png and layer_1.png.
C5_Witness ==
    /\ pc = "done"
    /\ ~enable_lower_layers
    /\ FileA \in event_dir
    /\ Len(parse_dzi(FileA.content).layers) = 4
    /\ FilesOf(<<"A">>) = {<<<<"A">>, LayerFile(0)>>, <<<<"A">>, LayerFile(1)>>}

(***************************************************************************)
(* C7.                                                                     *)
(***************************************************************************)
\* The run has ended in failure: an error returned to main, or a panic.
Terminated == pc \in {"failed", "panicked"}

\* C7: an error ends the run at once and for good: in every state with an
\* error the run is over with a non-zero exit status, a run that ends in
\* success has met no error, and no step is taken from a state with an error
\* (no manifest parsed, no layer composed, no file written after it).
C7_ErrorsAreFatal ==
    /\ [](/\ err # "none" => (Terminated /\ exit_code \notin {-1, 0})
          /\ pc = "done" => (err = "none" /\ exit_code = 0))
    /\ [][err = "none"]_vars

\* A tile load error ended the run after a file was written and while a
\* directory entry was still to come.
C7_Witness ==
    /\ pc = "failed"
    /\ err = "TileLoadError"
    /\ exit_code = 1
    /\ remaining # {}
    /\ DOMAIN output # {}

(***************************************************************************)
(* C10.                                                                    *)
(***************************************************************************)
\* Every file of the output directory is layer k of a manifest run has
\* parsed, and the tile of every cell of that layer that names one has been
\* loaded and painted.
FilesHaveTheirTiles ==
    \A p \in DOMAIN output :
        \E e \in Handled :
            /\ p[1] = FileStem(e.name)
            /\ LET parsed == parse_dzi(e.content) IN
               /\ parsed.kind = "ok"
               /\ \E k \in 0..(Len(parsed.layers) - 1) :
                   /\ p[2] = LayerFile(k)
                   /\ \A c \in NamedCells(parsed.layers[k + 1].tiles) :
                       <<p[1], k, c[1], c[2]>> \in loads

\* C10: once the output directory is reset, a layer file exists only if
\* every tile of its layer was loaded; the step on which a tile fails to
\* load writes no file, for the layer being composed least of all, and
\* leaves the files written before as they are.
C10_WrittenAfterAllLoads ==
    /\ [](ResetDone => FilesHaveTheirTiles)
    /\ [](err = "TileLoadError" => LayerKey \notin DOMAIN output)
    /\ [][err' = "TileLoadError" => output' = output]_vars

\* A tile failed to load while a layer after layer 0 was being composed, and
\* layer 0's file is in place.
C10_Witness ==
    /\ pc = "failed"
    /\ err = "TileLoadError"
    /\ i >= 1
    /\ <<group, LayerFile(0)>> \in DOMAIN output

====
